---- MODULE Spec2Model ----
(***************************************************************************)
(* A model of package datediff: the calendar decomposition of a pair of    *)
(* dates into years, months, weeks and days (datediff.go) and the verb     *)
(* based rendering of the result (format.go).                              *)
(*                                                                         *)
(* A time.Time is modelled as a calendar date at midnight UTC, held as the *)
(* number of days since 1 January 2000.  A Go string is a sequence of      *)
(* one-character strings.                                                  *)
(***************************************************************************)
EXTENDS Integers, Sequences, FiniteSets, TLC

VARIABLES
    start,      \* argument start of NewDiff / NewDiffWithMode
    end,        \* argument end of NewDiff / NewDiffWithMode
    sel,        \* the selector argument: a rawFormat or a DiffMode
    fmtArg,     \* argument rawFormat of Diff.Format / Diff.FormatWithZeros
    pc,         \* position of the caller
    diff,       \* the Diff returned by the constructor
    err,        \* the error returned by the constructor
    op,         \* the rendering method called: "Format" or "FormatWithZeros"
    out,        \* the string returned by Format / FormatWithZeros
    ferr        \* the error returned by Format / FormatWithZeros

vars == <<start, end, sel, fmtArg, pc, diff, err, op, out, ferr>>

-----------------------------------------------------------------------------
(* Bounds of the checked input space.                                      *)

\* ends are start.AddDate(0, m, d) for m in 0..MaxMonths, d in -1..MaxDays
MaxMonths == 37
MaxDays == 8
\* no counting loop runs more than MaxLoop times
MaxLoop == 4000
\* format strings over Alphabet of length 0..MaxLen
MaxLen == 4

-----------------------------------------------------------------------------
(* Program constants.                                                      *)

monthsInYear == 12
daysInWeek == 7

ModeYears == 128
ModeMonths == 64
ModeWeeks == 32
ModeDays == 16

\* A DiffMode is a bit set; it is held as the set of the bits that are set.
AllModeBits == {ModeYears, ModeMonths, ModeWeeks, ModeDays}
DiffModes == SUBSET AllModeBits

-----------------------------------------------------------------------------
(* time.Time: the calendar arithmetic that the package uses.               *)

isLeap(year) == year % 4 = 0 /\ (year % 100 # 0 \/ year % 400 = 0)

\* days from 1 January 2000, the first year of YearRange, to 1 January of
\* year: 365 a year and one more for each leap year in between (484 leap
\* years precede 2000)
daysSinceEpoch(year) ==
    365 * (year - 2000)
    + ((year - 1) \div 4 - (year - 1) \div 100 + (year - 1) \div 400) - 484

\* days of a non-leap year before the first of each month
daysBefore == <<0, 31, 59, 90, 120, 151, 181, 212, 243, 273, 304, 334, 365>>

\* time.Date(year, month, day, 0, 0, 0, 0, UTC): month and day may be out of
\* range and are normalised (October 32 is November 1, month 13 is January
\* of the next year).
Date(year, month, day) ==
    daysSinceEpoch(year + ((month - 1) \div 12))
    + daysBefore[((month - 1) % 12) + 1]
    + (IF isLeap(year + ((month - 1) \div 12)) /\ ((month - 1) % 12) >= 2 THEN 1 ELSE 0)
    + (day - 1)

\* Time.Date(): the year, month and day of a day number, the inverse of Date
\* on the dates of the calendar
civilTable ==
    [n \in 0..daysSinceEpoch(2017) |->
        CHOOSE c \in [year : {2000 + (n \div 366), 2001 + (n \div 366)},
                      month : 1..12, day : 1..31] :
            /\ Date(c.year, c.month, c.day) = n
            /\ Date(c.year, c.month + 1, 1) > n]

Year(t) == civilTable[t].year

\* Time.AddDate: Date(year + years, month + months, day + days).  Date is
\* linear in its day, so that adding days alone adds to the day number.
AddDate(t, years, months, days) ==
    IF years = 0 /\ months = 0 THEN t + days
    ELSE LET c == civilTable[t]
         IN  Date(c.year + years, c.month + months, c.day + days)

After(t, u) == t > u
Before(t, u) == t < u
Equal(t, u) == t = u

-----------------------------------------------------------------------------
(* datediff.go: the decomposition.                                         *)

fullYearsDiff(s, e) ==
    LET years == Year(e) - Year(s)
    IN  IF After(AddDate(s, years, 0, 0), e) THEN years - 1 ELSE years

\* The three counting loops leave their counter at the first value for which
\* the loop condition fails.
monthsFit(s, e, months) ==
    Before(AddDate(s, 0, months + 1, 0), e) \/ Equal(AddDate(s, 0, months + 1, 0), e)

fullMonthsDiff(s, e) ==
    CHOOSE months \in 0..MaxLoop :
        /\ ~monthsFit(s, e, months)
        /\ \A m \in 0..(months - 1) : monthsFit(s, e, m)

\* the variable days of the loop is daysInWeek * (weeks + 1)
weeksFit(s, e, weeks) ==
    \/ Before(AddDate(s, 0, 0, daysInWeek * (weeks + 1)), e)
    \/ Equal(AddDate(s, 0, 0, daysInWeek * (weeks + 1)), e)

fullWeeksDiff(s, e) ==
    CHOOSE weeks \in 0..MaxLoop :
        /\ ~weeksFit(s, e, weeks)
        /\ \A w \in 0..(weeks - 1) : weeksFit(s, e, w)

daysFit(s, e, days) ==
    Before(AddDate(s, 0, 0, days + 1), e) \/ Equal(AddDate(s, 0, 0, days + 1), e)

fullDaysDiff(s, e) ==
    CHOOSE days \in 0..MaxLoop :
        /\ ~daysFit(s, e, days)
        /\ \A d \in 0..(days - 1) : daysFit(s, e, d)

\* Diff{}: the zero value
zeroDiff == [Years |-> 0, Months |-> 0, Weeks |-> 0, Days |-> 0,
             rawFormat |-> <<>>, mode |-> {}]

\* newDiff is a chain of four steps over the Diff built so far and the
\* cursor, the local variable start.
yearsStep(s, e, mode) ==
    IF ModeYears \in mode
    THEN LET Years == fullYearsDiff(s, e)
         IN  [Years |-> Years, start |-> AddDate(s, Years, 0, 0)]
    ELSE [Years |-> 0, start |-> s]

\* a variant of monthsStep that reports the months of the last year only
monthsStepRemainder(d, e, mode) ==
    IF ModeMonths \in mode
    THEN LET years == IF ModeYears \notin mode THEN fullYearsDiff(d.start, e) ELSE 0
             months == fullMonthsDiff(AddDate(d.start, years, 0, 0), e)
         IN  [Years |-> d.Years, Months |-> months,
              start |-> AddDate(d.start, 0, years * monthsInYear + months, 0)]
    ELSE [Years |-> d.Years, Months |-> 0, start |-> d.start]

monthsStep(d, e, mode) ==
    IF ModeMonths \in mode
    THEN LET years == IF ModeYears \notin mode THEN fullYearsDiff(d.start, e) ELSE 0
             months == fullMonthsDiff(AddDate(d.start, years, 0, 0), e)
             Months == years * monthsInYear + months
         IN  [Years |-> d.Years, Months |-> Months, start |-> AddDate(d.start, 0, Months, 0)]
    ELSE [Years |-> d.Years, Months |-> 0, start |-> d.start]

weeksStep(d, e, mode) ==
    IF ModeWeeks \in mode
    THEN LET Weeks == fullWeeksDiff(d.start, e)
         IN  [Years |-> d.Years, Months |-> d.Months, Weeks |-> Weeks,
              start |-> AddDate(d.start, 0, 0, Weeks * daysInWeek)]
    ELSE [Years |-> d.Years, Months |-> d.Months, Weeks |-> 0, start |-> d.start]

\* a variant of daysStep that counts days whatever the mode
daysStepAlways(d, e, mode) ==
    [Years |-> d.Years, Months |-> d.Months, Weeks |-> d.Weeks,
     Days |-> fullDaysDiff(d.start, e),
     rawFormat |-> <<>>, mode |-> mode]

daysStep(d, e, mode) ==
    [Years |-> d.Years, Months |-> d.Months, Weeks |-> d.Weeks,
     Days |-> IF ModeDays \in mode THEN fullDaysDiff(d.start, e) ELSE 0,
     rawFormat |-> <<>>, mode |-> mode]

newDiff(s, e, mode) ==
    CHOOSE d \in {daysStep(w, e, mode) :
                    w \in {weeksStep(m, e, mode) :
                        m \in {monthsStep(y, e, mode) :
                            y \in {yearsStep(s, e, mode)}}}} : TRUE

-----------------------------------------------------------------------------
(* Strings: package strings, strconv, fmt and unicode as format.go uses    *)
(* them.                                                                   *)

HasPrefixAt(s, i, sub) ==
    i + Len(sub) - 1 <= Len(s) /\ SubSeq(s, i, i + Len(sub) - 1) = sub

\* strings.Contains
Contains(s, sub) == \E i \in 1..Len(s) : HasPrefixAt(s, i, sub)

\* strings.ReplaceAll for a non-empty old: the non-overlapping instances of
\* old, found from left to right, are replaced by new.
RECURSIVE replaceFrom(_, _, _, _)
replaceFrom(s, old, new, i) ==
    IF i > Len(s) THEN <<>>
    ELSE IF HasPrefixAt(s, i, old) THEN new \o replaceFrom(s, old, new, i + Len(old))
    ELSE <<s[i]>> \o replaceFrom(s, old, new, i + 1)

ReplaceAll(s, old, new) == replaceFrom(s, old, new, 1)

\* strconv.Itoa
RECURSIVE digits(_)
digits(n) ==
    LET d == <<"0", "1", "2", "3", "4", "5", "6", "7", "8", "9">>[(n % 10) + 1]
    IN  IF n < 10 THEN <<d>> ELSE digits(n \div 10) \o <<d>>

Itoa(n) == IF n < 0 THEN <<"-">> \o digits(0 - n) ELSE digits(n)

\* unicode.IsUpper, on the letters a verb can hold
IsUpper(r) == r \in {"Y", "M", "W", "D"}

-----------------------------------------------------------------------------
(* datediff.go: parsing a format.                                          *)

nil == [kind |-> "nil", format |-> <<>>, verb |-> ""]
errStartIsAfterEnd == [kind |-> "start date is after end date", format |-> <<>>, verb |-> ""]
errUndefinedDiffMode == [kind |-> "undefined dates difference mode", format |-> <<>>, verb |-> ""]
\* fmt.Errorf("format %q has unknown verb %c", rawFormat, c)
errUnknownVerb(rawFormat, c) == [kind |-> "has unknown verb", format |-> rawFormat, verb |-> c]
\* the run-time panic of an index out of range
panicIndex == [kind |-> "panic: index out of range", format |-> <<>>, verb |-> ""]

\* The loop of unmarshal from index i (counted from 0, as in the source) with
\* the bits found so far.  The result is the pair (mode, error).
RECURSIVE unmarshalLoop(_, _, _)
unmarshalLoop(rawFormat, i, mode) ==
    LET last == Len(rawFormat)
        \* the inner loop: the first index from i on that holds '%', or last
        rest == {k \in i..(last - 1) : rawFormat[k + 1] = "%"}
        j == IF rest = {} THEN last ELSE CHOOSE k \in rest : \A l \in rest : k <= l
        done == [mode |-> mode, err |-> IF mode = {} THEN errUndefinedDiffMode ELSE nil]
    IN  IF i >= last \/ j >= last THEN done
        ELSE IF j + 1 >= last THEN [mode |-> {}, err |-> panicIndex]
        ELSE LET c == rawFormat[j + 2]
             IN  CASE c \in {"Y", "y"} -> unmarshalLoop(rawFormat, j + 1, mode \cup {ModeYears})
                   [] c \in {"M", "m"} -> unmarshalLoop(rawFormat, j + 1, mode \cup {ModeMonths})
                   [] c \in {"W", "w"} -> unmarshalLoop(rawFormat, j + 1, mode \cup {ModeWeeks})
                   [] c \in {"D", "d"} -> unmarshalLoop(rawFormat, j + 1, mode \cup {ModeDays})
                   [] OTHER -> [mode |-> {}, err |-> errUnknownVerb(rawFormat, c)]

unmarshal(rawFormat) == unmarshalLoop(rawFormat, 0, {})

-----------------------------------------------------------------------------
(* format.go: rendering.                                                   *)

formatUnits ==
    (<<"%", "Y">> :> <<"y", "e", "a", "r">>) @@ (<<"%", "y">> :> <<"y", "e", "a", "r">>) @@
    (<<"%", "M">> :> <<"m", "o", "n", "t", "h">>) @@ (<<"%", "m">> :> <<"m", "o", "n", "t", "h">>) @@
    (<<"%", "W">> :> <<"w", "e", "e", "k">>) @@ (<<"%", "w">> :> <<"w", "e", "e", "k">>) @@
    (<<"%", "D">> :> <<"d", "a", "y">>) @@ (<<"%", "d">> :> <<"d", "a", "y">>)

\* a variant of formatNoun for which 0 is singular
formatNounPluralAboveOne(n, s) ==
    Itoa(n) \o <<" ">> \o s \o (IF n > 1 THEN <<"s">> ELSE <<>>)

\* fmt.Sprintf("%d %s", n, s), with "s" appended to the format when n != 1
formatNoun(n, s) ==
    Itoa(n) \o <<" ">> \o s \o (IF n # 1 THEN <<"s">> ELSE <<>>)

verbReplace(s, n, verb, unit) ==
    LET replacement == IF IsUpper(verb[2]) THEN formatNoun(n, unit) ELSE Itoa(n)
    IN  ReplaceAll(s, verb, replacement)

zeroVerbReplace(s, verb) ==
    ReplaceAll(ReplaceAll(s, <<" ">> \o verb, <<>>), verb, <<>>)

\* the switch of frmt: the count of d that belongs to unit
unitCount(d, unit) ==
    CASE unit = <<"y", "e", "a", "r">> -> d.Years
      [] unit = <<"m", "o", "n", "t", "h">> -> d.Months
      [] unit = <<"w", "e", "e", "k">> -> d.Weeks
      [] unit = <<"d", "a", "y">> -> d.Days
      [] OTHER -> 0

\* the callback that format passes to frmt
formatReplace(res, n, verb, unit) ==
    IF n = 0 THEN zeroVerbReplace(res, verb) ELSE verbReplace(res, n, verb, unit)

\* the callback that formatWithZeros passes to frmt
formatWithZerosReplace(res, n, verb, unit) == verbReplace(res, n, verb, unit)

\* The orders in which range can produce the keys of formatUnits matter only
\* for the keys that rawFormat contains: the others are skipped.
verbsIn(rawFormat) == {verb \in DOMAIN formatUnits : Contains(rawFormat, verb)}

Orders(S) ==
    {o \in [1..Cardinality(S) -> S] : \A i, j \in 1..Cardinality(S) : i # j => o[i] # o[j]}

\* frmt, visiting the verbs in the given order from position i on, with the
\* callback of format (zeros = FALSE) or of formatWithZeros (zeros = TRUE)
RECURSIVE frmt(_, _, _, _, _)
frmt(d, order, i, zeros, res) ==
    IF i > Len(order) THEN res
    ELSE LET verb == order[i]
             unit == formatUnits[verb]
             n == unitCount(d, unit)
         IN  frmt(d, order, i + 1, zeros,
                  IF zeros THEN formatWithZerosReplace(res, n, verb, unit)
                  ELSE formatReplace(res, n, verb, unit))

\* format(diff, rawFormat) when range produces the verbs in the given order
format(d, rawFormat, order) == frmt(d, order, 1, FALSE, rawFormat)

\* formatWithZeros(diff, rawFormat), likewise
formatWithZeros(d, rawFormat, order) == frmt(d, order, 1, TRUE, rawFormat)

-----------------------------------------------------------------------------
(* The exported functions and methods.  A call returns a value and an      *)
(* error; the error panicIndex stands for a call that panics instead of    *)
(* returning.                                                              *)

\* a variant of NewDiffCall that validates the format first
NewDiffCallFormatFirst(s, e, rawFormat) ==
    IF unmarshal(rawFormat).err # nil
    THEN [diff |-> zeroDiff, err |-> unmarshal(rawFormat).err]
    ELSE IF After(s, e) THEN [diff |-> zeroDiff, err |-> errStartIsAfterEnd]
    ELSE [diff |-> [newDiff(s, e, unmarshal(rawFormat).mode) EXCEPT !.rawFormat = rawFormat],
          err |-> nil]

NewDiffCall(s, e, rawFormat) ==
    IF After(s, e) THEN [diff |-> zeroDiff, err |-> errStartIsAfterEnd]
    ELSE IF unmarshal(rawFormat).err # nil
    THEN [diff |-> zeroDiff, err |-> unmarshal(rawFormat).err]
    ELSE [diff |-> [newDiff(s, e, unmarshal(rawFormat).mode) EXCEPT !.rawFormat = rawFormat],
          err |-> nil]

NewDiffWithModeCall(s, e, mode) ==
    IF After(s, e) THEN [diff |-> zeroDiff, err |-> errStartIsAfterEnd]
    ELSE [diff |-> newDiff(s, e, mode), err |-> nil]

\* Diff.Format, when range produces the verbs in the given order
FormatCall(d, rawFormat, order) ==
    IF unmarshal(rawFormat).err # nil THEN [out |-> <<>>, err |-> unmarshal(rawFormat).err]
    ELSE [out |-> format(d, rawFormat, order), err |-> nil]

\* Diff.FormatWithZeros, likewise
FormatWithZerosCall(d, rawFormat, order) ==
    IF unmarshal(rawFormat).err # nil THEN [out |-> <<>>, err |-> unmarshal(rawFormat).err]
    ELSE [out |-> formatWithZeros(d, rawFormat, order), err |-> nil]

-----------------------------------------------------------------------------
(* The inputs.                                                             *)

StartDates ==
    {Date(2000, 1, 31), Date(2000, 2, 29), Date(2000, 4, 17),
     Date(2000, 10, 1), Date(2000, 12, 31), Date(2001, 2, 28)}

\* around every whole number of months after s, from the day before s on
EndDates(s) == {AddDate(s, 0, m, d) : m \in 0..MaxMonths, d \in (0 - 1)..MaxDays}

\* the ends of the package's examples, ten years after 1 October 2000
ExampleEnds(s) ==
    IF s = Date(2000, 10, 1)
    THEN {Date(2010, 10, 30), Date(2010, 11, 1), Date(2010, 11, 30)}
    ELSE {}

modeSel(mode) == [kind |-> "mode", mode |-> mode, rawFormat |-> <<>>]
formatSel(rawFormat) == [kind |-> "format", mode |-> {}, rawFormat |-> rawFormat]

\* formats of the package's tests and examples
fmtYMD == <<"%", "Y", " ", "%", "M", " ", "%", "D">>
fmtYM == <<"%", "Y", " ", "%", "M">>
fmtY == <<"%", "Y">>
fmtYMWD == <<"%", "Y", ",", " ", "%", "M", ",", " ", "%", "W", " ", "a", "n", "d", " ", "%", "D">>
fmtXLS == <<"%", "X", "%", "L", " ", "%", "S">>
fmtBlank == <<" ", " ", " ">>
fmtText == <<"Y", "e", "a", "r", "s", " ", "a", "n", "d", " ", "m", "o", "n", "t", "h", "s">>
fmtAnos == <<"%", "y", " ", "a", "n", "o", "s">>
fmtAnosMesesDias == <<"%", "y", " ", "a", "n", "o", "s", " ", "%", "m", " ", "m", "e", "s", "e", "s", " ", "%", "d", " ", "d", "i", "a", "s">>
\* formats in which '%' is the last character, or a verb follows a verb
fmtPercent == <<"%">>
fmtYPercent == <<"Y", "%">>
fmtSpacesYM == <<" ", " ", "%", "Y", "%", "M">>
fmtm == <<"%", "m">>
fmtWD == <<"%", "W", " ", "%", "D">>

Alphabet == {"%", "Y", "y", "m", " "}
Strings(n) == UNION {[1..k -> Alphabet] : k \in 0..n}

ExtraFormats ==
    {fmtYMD, fmtYM, fmtY, fmtYMWD, fmtXLS, fmtBlank, fmtText, fmtAnos,
     fmtAnosMesesDias, fmtPercent, fmtYPercent, fmtSpacesYM}

\* pairs of dates of the tests and examples, and one with start after end
FormatDates ==
    {<<Date(2000, 10, 1), Date(2000, 10, 1)>>,
     <<Date(2000, 10, 1), Date(2000, 11, 30)>>,
     <<Date(2000, 10, 1), Date(2001, 10, 30)>>,
     <<Date(2000, 10, 1), Date(2010, 10, 30)>>,
     <<Date(2000, 10, 1), Date(2010, 11, 30)>>,
     <<Date(2000, 4, 17), Date(2003, 4, 17)>>,
     <<Date(2000, 10, 2), Date(2000, 10, 1)>>}

-----------------------------------------------------------------------------
(* The state machine: a caller constructs a Diff and renders it.           *)

TypeOK ==
    /\ pc \in {"start", "built", "done", "panicked"}
    /\ sel.kind \in {"mode", "format"}
    /\ op \in {"none", "Format", "FormatWithZeros"}

InitCommon ==
    /\ pc = "start"
    /\ diff = zeroDiff
    /\ err = nil
    /\ op = "none"
    /\ out = <<>>
    /\ ferr = nil

\* every mode, and a few formats, over many pairs of dates
Init ==
    /\ start \in StartDates
    /\ end \in EndDates(start) \cup ExampleEnds(start)
    /\ sel \in {modeSel(m) : m \in DiffModes}
               \cup {formatSel(f) : f \in {fmtYMD, fmtY, fmtm, fmtXLS, fmtYPercent}}
    /\ fmtArg \in {fmtYM, fmtWD}
    /\ InitCommon

\* every short format over a few pairs of dates
InitFormat ==
    /\ \E p \in FormatDates : start = p[1] /\ end = p[2]
    /\ fmtArg \in Strings(MaxLen) \cup ExtraFormats
    /\ sel \in {modeSel(AllModeBits), formatSel(fmtY), formatSel(fmtArg)}
    /\ InitCommon

NewDiff ==
    /\ pc = "start"
    /\ sel.kind = "format"
    /\ \E r \in {NewDiffCall(start, end, sel.rawFormat)} :
          /\ diff' = r.diff
          /\ err' = r.err
          /\ pc' = IF r.err = panicIndex THEN "panicked" ELSE "built"
    /\ UNCHANGED <<start, end, sel, fmtArg, op, out, ferr>>

NewDiffWithMode ==
    /\ pc = "start"
    /\ sel.kind = "mode"
    /\ \E r \in {NewDiffWithModeCall(start, end, sel.mode)} :
          /\ diff' = r.diff
          /\ err' = r.err
          /\ pc' = "built"
    /\ UNCHANGED <<start, end, sel, fmtArg, op, out, ferr>>

\* range produces the keys of formatUnits in an order that is not specified
Format ==
    /\ pc = "built"
    /\ err = nil
    /\ op' = "Format"
    /\ \E order \in Orders(verbsIn(fmtArg)) :
          \E r \in {FormatCall(diff, fmtArg, order)} :
              /\ out' = r.out
              /\ ferr' = r.err
              /\ pc' = IF r.err = panicIndex THEN "panicked" ELSE "done"
    /\ UNCHANGED <<start, end, sel, fmtArg, diff, err>>

FormatWithZeros ==
    /\ pc = "built"
    /\ err = nil
    /\ op' = "FormatWithZeros"
    /\ \E order \in Orders(verbsIn(fmtArg)) :
          \E r \in {FormatWithZerosCall(diff, fmtArg, order)} :
              /\ out' = r.out
              /\ ferr' = r.err
              /\ pc' = IF r.err = panicIndex THEN "panicked" ELSE "done"
    /\ UNCHANGED <<start, end, sel, fmtArg, diff, err>>

Next == NewDiff \/ NewDiffWithMode \/ Format \/ FormatWithZeros

Spec == Init /\ [][Next]_vars

SpecFormat == InitFormat /\ [][Next]_vars

-----------------------------------------------------------------------------
(* Properties.                                                             *)

\* a constructor has returned a Diff
Built == pc # "start" /\ err = nil

\* the count of d for the unit of a mode bit
count(d, u) ==
    CASE u = ModeYears -> d.Years
      [] u = ModeMonths -> d.Months
      [] u = ModeWeeks -> d.Weeks
      [] u = ModeDays -> d.Days

\* C1: with Months selected and Years not, Months is the result of the plain
\* month-counting loop run from start: the largest n with start advanced by
\* n months <= end.
MonthsOnlyIsPlainLoop ==
    (Built /\ ModeMonths \in diff.mode /\ ModeYears \notin diff.mode)
        => diff.Months = fullMonthsDiff(start, end)

\* the coarsest unit of a mode that is not empty
coarsest(mode) == CHOOSE u \in mode : \A v \in mode : v <= u

\* start advanced by n whole units of u
shift(s, u, n) ==
    CASE u = ModeYears -> AddDate(s, n, 0, 0)
      [] u = ModeMonths -> AddDate(s, 0, n, 0)
      [] u = ModeWeeks -> AddDate(s, 0, 0, daysInWeek * n)
      [] u = ModeDays -> AddDate(s, 0, 0, n)

\* The numbers n with s advanced by n units of u equal to e.  n units of u
\* are at least n, 7n, 28n or 365n days, which bounds the search.
wholeUnits(s, e, u) ==
    LET shortest == CASE u = ModeYears -> 365 [] u = ModeMonths -> 28
                      [] u = ModeWeeks -> daysInWeek [] u = ModeDays -> 1
    IN  {n \in 0..((e - s) \div shortest) : shift(s, u, n) = e}

\* C2: when end is start advanced by exactly N units of a selected unit U,
\* the count of U is N and every selected unit finer than U counts 0; stated
\* for the modes of which U is the coarsest unit, a part of what C2 claims.
ExactUnitsCounted ==
    (Built /\ diff.mode # {}) =>
        \A n \in wholeUnits(start, end, coarsest(diff.mode)) :
            /\ count(diff, coarsest(diff.mode)) = n
            /\ \A f \in diff.mode : f < coarsest(diff.mode) => count(diff, f) = 0

\* later ends against which the Diff of a state is compared
LaterEnds(e) == {e + 1, e + daysInWeek, AddDate(e, 0, 1, 0)}

\* C3 as stated: no count decreases when end increases, start and mode fixed.
AllCountsMonotone ==
    (pc = "built" /\ err = nil /\ diff.mode # {}) =>
        \A e2 \in LaterEnds(end) : \A d2 \in {newDiff(start, e2, diff.mode)} :
            \A u \in AllModeBits : count(d2, u) >= count(diff, u)

\* C3, amended: the count of the coarsest selected unit does not decrease
\* when end increases, start and mode fixed.
CoarsestCountMonotone ==
    (pc = "built" /\ err = nil /\ diff.mode # {}) =>
        \A e2 \in LaterEnds(end) : \A d2 \in {newDiff(start, e2, diff.mode)} :
            count(d2, coarsest(diff.mode)) >= count(diff, coarsest(diff.mode))

\* a later end at which the coarsest count has grown and a finer one shrunk
CoarsestGrowsFinerShrinks ==
    /\ pc = "built" /\ err = nil /\ diff.mode # {}
    /\ \E e2 \in LaterEnds(end) : \E d2 \in {newDiff(start, e2, diff.mode)} :
          /\ count(d2, coarsest(diff.mode)) > count(diff, coarsest(diff.mode))
          /\ \E f \in diff.mode : count(d2, f) < count(diff, f)

\* C4: NewDiff, Format and FormatWithZeros return; none of them faults.
NeverFaults == pc # "panicked"

VerbChars == {"Y", "y", "M", "m", "W", "w", "D", "d"}

unitOf(c) ==
    CASE c \in {"Y", "y"} -> ModeYears
      [] c \in {"M", "m"} -> ModeMonths
      [] c \in {"W", "w"} -> ModeWeeks
      [] c \in {"D", "d"} -> ModeDays

\* the result of parsing as C5 states it
statedParse(rawFormat) ==
    LET followed == {i \in 1..(Len(rawFormat) - 1) : rawFormat[i] = "%"}
        offending == {i \in followed : rawFormat[i + 1] \notin VerbChars}
        first == CHOOSE i \in offending : \A k \in offending : i <= k
        units == {unitOf(rawFormat[i + 1]) : i \in followed \ offending}
    IN  IF offending # {}
        THEN [mode |-> {}, err |-> errUnknownVerb(rawFormat, rawFormat[first + 1])]
        ELSE IF units = {} THEN [mode |-> {}, err |-> errUndefinedDiffMode]
        ELSE [mode |-> units, err |-> nil]

\* C5: parsing fails with the unknown-verb error at the first '%' followed by
\* a character that is no verb, else with the undefined-mode error when there
\* is no verb, else yields the units of the verbs; a failure yields the zero
\* Diff or the empty string.
ParsesAsStated ==
    /\ (pc # "start" /\ sel.kind = "format" /\ ~After(start, end)) =>
          /\ pc # "panicked" \/ op # "none"
          /\ err = statedParse(sel.rawFormat).err
          /\ err # nil => diff = zeroDiff
          /\ err = nil => diff.mode = statedParse(sel.rawFormat).mode
    /\ op # "none" =>
          /\ pc # "panicked"
          /\ ferr = statedParse(fmtArg).err
          /\ ferr # nil => out = <<>>

\* C6: the constructors fail with the start-after-end error exactly when
\* start is after end, whatever the format; equal dates give four zero counts.
StartAfterEndExactly ==
    pc # "start" =>
        /\ err = errStartIsAfterEnd <=> After(start, end)
        /\ (Equal(start, end) /\ err = nil) =>
              \A u \in AllModeBits : count(diff, u) = 0

\* start after end, with a format that does not parse
StartAfterEndInvalidFormat ==
    /\ pc = "built" /\ After(start, end)
    /\ sel.kind = "format" /\ unmarshal(sel.rawFormat).err # nil
    /\ err = errStartIsAfterEnd

unitName(u) ==
    CASE u = ModeYears -> <<"y", "e", "a", "r">>
      [] u = ModeMonths -> <<"m", "o", "n", "t", "h">>
      [] u = ModeWeeks -> <<"w", "e", "e", "k">>
      [] u = ModeDays -> <<"d", "a", "y">>

upperVerb(u) ==
    CASE u = ModeYears -> <<"%", "Y">>
      [] u = ModeMonths -> <<"%", "M">>
      [] u = ModeWeeks -> <<"%", "W">>
      [] u = ModeDays -> <<"%", "D">>

\* C7: a unit that is not selected counts 0; a rendering with a format that
\* names it shows "0 <unit>s" with FormatWithZeros and omits it with Format;
\* the Diff of "%Y" over 10 years and 1 month renders with "%Y %M" as
\* "10 years 0 months" and "10 years".
UnselectedUnitsAreZero ==
    Built =>
        /\ \A u \in AllModeBits \ diff.mode : count(diff, u) = 0
        /\ (pc = "done" /\ ferr = nil) =>
              \A u \in AllModeBits \ diff.mode : Contains(fmtArg, upperVerb(u)) =>
                  IF op = "FormatWithZeros"
                  THEN Contains(out, <<"0", " ">> \o unitName(u) \o <<"s">>)
                  ELSE ~Contains(out, unitName(u))
        /\ (/\ pc = "done" /\ sel = formatSel(fmtY) /\ fmtArg = fmtYM
            /\ start = Date(2000, 10, 1) /\ end = Date(2010, 11, 1)) =>
              out = IF op = "FormatWithZeros"
                    THEN <<"1", "0", " ", "y", "e", "a", "r", "s", " ", "0", " ", "m", "o", "n", "t", "h", "s">>
                    ELSE <<"1", "0", " ", "y", "e", "a", "r", "s">>

\* the Diff of "%Y" over 10 years and 1 month, rendered by Format("%Y %M")
YearsOnlyRenderedWithMonths ==
    /\ pc = "done" /\ op = "Format" /\ sel = formatSel(fmtY) /\ fmtArg = fmtYM
    /\ start = Date(2000, 10, 1) /\ end = Date(2010, 11, 1)
    /\ diff.Years = 10 /\ diff.Months = 0
    /\ out = <<"1", "0", " ", "y", "e", "a", "r", "s">>

\* C8: for a format whose verbs are separated by single spaces, the output of
\* Format has no double space, no leading space and no trailing space.
NoSpaceArtifacts ==
    (pc = "done" /\ op = "Format" /\ ferr = nil /\ fmtArg \in {fmtYMD, fmtYM}) =>
        /\ ~Contains(out, <<" ", " ">>)
        /\ out # <<>> => (out[1] # " " /\ out[Len(out)] # " ")

\* the text that C9 states for one verb
statedReplacement(d, c) ==
    IF IsUpper(c)
    THEN Itoa(count(d, unitOf(c))) \o <<" ">> \o unitName(unitOf(c))
         \o (IF count(d, unitOf(c)) = 1 THEN <<>> ELSE <<"s">>)
    ELSE Itoa(count(d, unitOf(c)))

\* one pass over rawFormat from position i: verbs replaced, the rest copied
RECURSIVE statedRender(_, _, _)
statedRender(d, rawFormat, i) ==
    IF i > Len(rawFormat) THEN <<>>
    ELSE IF rawFormat[i] = "%" /\ i < Len(rawFormat) /\ rawFormat[i + 1] \in VerbChars
    THEN statedReplacement(d, rawFormat[i + 1]) \o statedRender(d, rawFormat, i + 2)
    ELSE <<rawFormat[i]>> \o statedRender(d, rawFormat, i + 1)

\* C9: FormatWithZeros returns the format with every uppercase verb replaced
\* by "<n> <unit>", the unit with "s" unless n = 1, every lowercase verb by
\* n, and the other text unchanged.
FormatWithZerosAsStated ==
    (pc = "done" /\ op = "FormatWithZeros" /\ ferr = nil) =>
        out = statedRender(diff, fmtArg, 1)

\* one year and no month, rendered by FormatWithZeros("%Y %M")
OneYearZeroMonths ==
    /\ pc = "done" /\ op = "FormatWithZeros" /\ fmtArg = fmtYM
    /\ diff.Years = 1 /\ diff.Months = 0
    /\ out = <<"1", " ", "y", "e", "a", "r", " ", "0", " ", "m", "o", "n", "t", "h", "s">>

\* C10: the output of Format and of FormatWithZeros is the same for every
\* order in which the verbs are visited.
OrderIndependent ==
    (pc = "done" /\ ferr = nil) =>
        \A order \in Orders(verbsIn(fmtArg)) :
            out = IF op = "Format" THEN format(diff, fmtArg, order)
                  ELSE formatWithZeros(diff, fmtArg, order)

\* C11: each selected unit measures less than one unit of the next coarser
\* selected unit: Months <= 11 with Years; Days <= 6 with Weeks; Days <= 30
\* with Months and without Weeks; Weeks <= 4 with Months.
RemaindersDoNotOverlap ==
    Built =>
        /\ ({ModeYears, ModeMonths} \subseteq diff.mode) => diff.Months <= 11
        /\ ({ModeWeeks, ModeDays} \subseteq diff.mode) => diff.Days <= 6
        /\ ({ModeMonths, ModeDays} \subseteq diff.mode /\ ModeWeeks \notin diff.mode)
              => diff.Days <= 30
        /\ ({ModeMonths, ModeWeeks} \subseteq diff.mode) => diff.Weeks <= 4

\* every unit selected, each remainder at the most C11 allows
LargestRemainders ==
    /\ Built /\ diff.mode = AllModeBits
    /\ diff.Years >= 1 /\ diff.Months = 11 /\ diff.Weeks = 4 /\ diff.Days >= 1

====
